---- MODULE Spec2Model ----
(***************************************************************************)
(* harvest-collector-service: the crawl orchestration state machine.       *)
(*                                                                         *)
(* The store (tasks, documents of a harvesting collection, credentials,    *)
(* results containers), the Main processing queue and its running job, the *)
(* failure monitor's timers and timer callbacks, the Internal queue, the   *)
(* external fetcher and the notification transport.                        *)
(*                                                                         *)
(* Every `await` of the JavaScript source is a point where another         *)
(* callback of the event loop (an HTTP delivery, a timer callback, the     *)
(* other queue) or the external fetcher can run, so a handler is a         *)
(* sequence of steps, one per await that reads or writes mutable store     *)
(* state.  Reads of data that never changes (a document's collection, a    *)
(* collection's task) are folded into the neighbouring step.               *)
(***************************************************************************)
EXTENDS Naturals, Integers, Sequences, FiniteSets, TLC

\* ------------------------------------------------------------ bounds
MaxDocs == 3        \* document identities that can ever be minted
MaxDup == 1         \* redeliveries (duplicates) the transport may make
MaxQueue == 2       \* jobs waiting in the Main queue
MaxMon == 2         \* failure-monitor timers pending or running at once

\* ------------------------------------------------------------ constants
Tasks == {"T1"}
DocIds == 1..MaxDocs
\* A remote data object of the store that is in no collection of a task.
Foreign == MaxDocs + 1
StoreIds == DocIds \cup {Foreign}
Urls == {1, 2, 3}

STATUS_SCHEDULED == "scheduled"
STATUS_BUSY == "busy"
TASK_STATUS_SUCCESS == "success"
TASK_STATUS_FAILED == "failed"
TASK_COLLECTING == "collecting"

REMOTE_READY_STATUS == "ready-to-be-cached"
REMOTE_ONGOING_STATUS == "ongoing"
REMOTE_SUCCESS_STATUS == "file-success"
REMOTE_FAILURE_STATUS == "file-failure"
REMOTE_COLLECTED_STATUS == "collected"
NoStatus == "none"      \* the document has no adms:status triple
Absent == "absent"      \* the document does not exist (yet)

\* The two ProcessingQueue instances: `queue` of app.js, INTERNAL_QUEUE.
Queues == {"Main", "Internal"}

BASIC_AUTH == "basic"
OAUTH2 == "oauth2"

\* The statuses isHarvestingCollectionDone's FILTER lists.
InFlightStatuses == {REMOTE_READY_STATUS, REMOTE_ONGOING_STATUS, REMOTE_SUCCESS_STATUS}

\* ------------------------------------------------------------ content
\* A raw link as it stands in a page: a target and a decoration that
\* cleanUrl removes (a #fragment or a ;jsessionid=... path parameter).
Raw(u, deco) == [base |-> u, deco |-> deco]

\* cleanUrl: drops the hash and the jsessionid, keeps the rest of the URL.
cleanUrl(raw) == raw.base

\* Order-preserving removal of duplicates: [...new Set(objects)].
RECURSIVE Dedup(_)
Dedup(s) ==
  IF s = <<>> THEN <<>>
  ELSE LET rest == Dedup(SubSeq(s, 1, Len(s) - 1))
           x == s[Len(s)]
       IN IF \E i \in 1..Len(rest) : rest[i] = x THEN rest ELSE Append(rest, x)

\* What the fetcher and the file layer find behind a URL:
\*   "ok"          the download succeeds and the page can be parsed,
\*   "nofile"      the download is marked success but no physical file exists,
\*   "unreadable"  the download succeeds but getLinkedUrls throws on the content,
\*   "fail"        the download fails permanently,
\* and the linkToPublication objects of the page, in document order.
Page(kind, raws) == [kind |-> kind, raws |-> raws]
Leaf == Page("ok", <<>>)

\* The crawls the model explores: the collection's credentials, the seed URLs
\* and the page behind each URL.
Crawl(cred, seeds, p1, p2, p3) ==
  [cred |-> cred, seeds |-> seeds, pages |-> <<p1, p2, p3>>, operation |-> TASK_COLLECTING,
   second |-> {}]

\* The same pages with the documents in S part of a second task's
\* collection.
WithSecond(c, S) == [c EXCEPT !.second = S]

\* The same crawl for a task of another operation ("none": the subject of
\* the scheduled statement is no loadable task).
WithOperation(c, op) == [c EXCEPT !.operation = op]

Scenarios ==
  { Crawl(BASIC_AUTH, <<1>>, Leaf, Leaf, Leaf),
    Crawl(OAUTH2, <<1>>, Page("ok", <<Raw(2, "none"), Raw(2, "hash")>>), Page("ok", <<Raw(3, "jsession")>>), Leaf),
    Crawl("none", <<1>>, Page("ok", <<Raw(2, "none")>>), Page("ok", <<Raw(1, "none")>>), Leaf),
    Crawl("none", <<1>>, Page("ok", <<Raw(2, "none"), Raw(3, "none")>>), Page("ok", <<Raw(3, "hash")>>), Leaf),
    Crawl(BASIC_AUTH, <<1, 2>>, Page("ok", <<Raw(3, "none")>>), Page("ok", <<Raw(3, "none")>>), Leaf),
    Crawl("none", <<1>>, Page("ok", <<Raw(2, "none")>>), Page("unreadable", <<>>), Leaf),
    Crawl(BASIC_AUTH, <<1>>, Page("ok", <<Raw(2, "none")>>), Page("fail", <<>>), Leaf),
    Crawl(BASIC_AUTH, <<1>>, Page("fail", <<>>), Leaf, Leaf),
    Crawl(BASIC_AUTH, <<1>>, Page("nofile", <<>>), Leaf, Leaf),
    Crawl(BASIC_AUTH, <<1, 2>>, Page("nofile", <<>>), Page("ok", <<Raw(3, "none")>>), Leaf),
    Crawl("apikey", <<1>>, Page("ok", <<Raw(2, "none")>>), Leaf, Leaf),
    WithOperation(Crawl("none", <<1>>, Leaf, Leaf, Leaf), "importing"),
    WithOperation(Crawl("none", <<1>>, Leaf, Leaf, Leaf), "none") }

\* A crawl in which a failed download, a fresh document and a content fault
\* meet: two seeds, the first fails to download, the second links to a third
\* page that is downloaded without a physical file.
DeepScenarios ==
  { Crawl(BASIC_AUTH, <<1, 2>>, Page("fail", <<>>), Page("ok", <<Raw(3, "none")>>), Page("nofile", <<>>)) }

VARIABLES
  scenario,     \* the crawl: seeds and page content (never changes)
  taskStatus,   \* [Tasks -> status]
  taskErrors,   \* [Tasks -> number of appended error messages]
  docs,         \* [StoreIds -> [url, status, phys, auth]], auth the document's own configuration
  credType,     \* [Tasks -> security scheme of the collection's configuration]
  credSecrets,  \* [Tasks -> TRUE while the collection's secrets are stored]
  containers,   \* [Tasks -> sequence of results containers (sets of documents)]
  queue,        \* the Main queue: jobs added and not yet started
  cur,          \* the job the Main queue is executing
  iqueue,       \* the Internal queue
  mon,          \* [1..MaxMon -> failure-monitor timer / callback]
  emitted,      \* notifications the store has produced
  delivered,    \* notifications delivered at least once
  dups,         \* redeliveries made
  written,      \* task status writes made by the last step
  handled,      \* documents harvested since the fetcher last marked them success
  minted,       \* uuid() calls made so far
  alive,        \* [Queues -> TRUE while the queue's run() loop is scheduled or running]
  icur          \* the document of the job the Internal queue is executing (0: none)

vars == <<scenario, taskStatus, taskErrors, docs, credType, credSecrets, containers,
          queue, cur, iqueue, mon, emitted, delivered, dups, written, handled, minted,
          alive, icur>>

\* ------------------------------------------------------------ helpers
\* An identity: one the service minted with uuid(), or one of the
\* configuration the collection came with.
Uuid(n) == [ns |-> "uuid", n |-> n]
SourceId(t, part) == [ns |-> part, n |-> 0]

\* The secret values of the collection's configuration: username and
\* password, or clientId and clientSecret.
SecretValues(t) == <<"id-of", t, "secret-of", t>>

\* No targetAuthenticationConfiguration on the document.
NoAuth == [type |-> "none", conf |-> Uuid(0), scheme |-> Uuid(0), secrets |-> Uuid(0), values |-> <<>>]

NoDoc == [url |-> 0, status |-> Absent, phys |-> FALSE, auth |-> NoAuth]
NoJob == [kind |-> "none", t |-> "-", d |-> 0, pc |-> "-", urls |-> <<>>, n |-> 0, off |-> 0]
Job(kind, t, d, pc) == [NoJob EXCEPT !.kind = kind, !.t = t, !.d = d, !.pc = pc]
FreeSlot == [st |-> "free", d |-> 0]

Notif(kind, t, d) == [kind |-> kind, t |-> t, d |-> d]

\* getTask of getHarvestingCollection: the task of the collection a document
\* is part of; the documents in `second` are part of the collection of a
\* second task.
TaskOf(i) == IF i \in scenario.second THEN "T2" ELSE "T1"

\* The documents of the task's collection (dct:hasPart).
Members(d, t) == {i \in DocIds : d[i].status # Absent /\ TaskOf(i) = t}

TerminalTask(s) == s \in {TASK_STATUS_SUCCESS, TASK_STATUS_FAILED}

\* A lookup that always finds a file.
getPhysicalFileAlways(d, i) == TRUE

\* getPhysicalFile: the nie:dataSource of the document, if any.
getPhysicalFile(d, i) == d[i].phys

\* getLinkedUrls: the cleaned, de-duplicated link targets of the page.
getLinkedUrls(sc, d, i) == Dedup([k \in 1..Len(sc.pages[d[i].url].raws) |-> cleanUrl(sc.pages[d[i].url].raws[k])])

\* getLinkedUrls throws when the content cannot be read or parsed.
LinksThrow(sc, d, i) == sc.pages[d[i].url].kind = "unreadable"

\* A membership test that finds nothing.
hasBeenCollectedNever(d, t, url) == FALSE

\* hasBeenCollected: some document of the collection has this URL.
hasBeenCollected(d, t, url) == \E i \in Members(d, t) : d[i].url = url

\* The bindings without the NOT IN filter on the document itself.
DoneBindingsAll(d, t, rdo) ==
  {i \in Members(d, t) : d[i].status \in InFlightStatuses}

\* isHarvestingCollectionDone: the query's bindings are the documents of the
\* collection, other than rdo, whose status is in the FILTER's list.
DoneBindings(d, t, rdo) ==
  {i \in Members(d, t) : d[i].status \in InFlightStatuses /\ i # rdo}

isHarvestingCollectionDone(d, t, rdo) == Cardinality(DoneBindings(d, t, rdo)) = 0

\* A count of the documents that failed instead.
hasRemoteObjectFailed(d, t) ==
  Cardinality({i \in Members(d, t) : d[i].status = REMOTE_FAILURE_STATUS})

\* hasRemoteObjectCollected: the number of documents with status collected.
hasRemoteObjectCollected(d, t) ==
  Cardinality({i \in Members(d, t) : d[i].status = REMOTE_COLLECTED_STATUS})

\* The SELECT of appendCollectedFilesToTaskResultsContainer: the documents of
\* the collection that are the data source of a physical file.
CollectedFiles(d, t) == {i \in Members(d, t) : d[i].phys}

\* A wrap-up that adds no container.
appendNoFiles(cs, d, t) == cs

\* appendCollectedFilesToTaskResultsContainer: one fresh container listing
\* the selected files, none when the SELECT is empty.
appendCollectedFiles(cs, d, t) ==
  IF CollectedFiles(d, t) = {} THEN cs
  ELSE [cs EXCEPT ![t] = Append(@, CollectedFiles(d, t))]

\* An update that writes nothing.
updateDocStatusNothing(d, i, s) == d

\* updateHarvestStatus on a document: replaces the status of a subject that
\* has one; a subject without adms:status is left alone (the WHERE is empty).
updateDocStatus(d, i, s) ==
  IF d[i].status \in {Absent, NoStatus} THEN d ELSE [d EXCEPT ![i].status = s]

\* getCredentialsType: the scheme, when it is one of the two known ones.
getCredentialsType(ct, t) == IF ct[t] \in {BASIC_AUTH, OAUTH2} THEN ct[t] ELSE "null"

\* deleteCredentials: removes the secrets of a basic or OAuth2 configuration.
deleteCredentials(cs, ct, t) ==
  IF getCredentialsType(ct, t) \in {BASIC_AUTH, OAUTH2} THEN [cs EXCEPT ![t] = FALSE] ELSE cs

\* The smallest identity not yet used (uuid() mints a fresh one).
FreshDoc(d) == CHOOSE i \in DocIds : d[i].status = Absent /\ \A j \in DocIds : d[j].status = Absent => i <= j

\* Batch size of the status-clearing loop of a claim (config.js).
DELETE_BATCH_SIZE == 2

\* ------------------------------------------------------------ initial state
Seed(sc, i) ==
  IF i <= Len(sc.seeds)
  THEN [url |-> sc.seeds[i], status |-> REMOTE_COLLECTED_STATUS, phys |-> FALSE, auth |-> NoAuth]
  ELSE NoDoc

\* The status statements about a document outside every collection that
\* reach the service (tried on the crawls of a single page): the foreign
\* document is success, or failure where the seed's download fails.
SinglePage(sc) == Len(sc.seeds) = 1 /\ sc.pages[1].raws = <<>>

ForeignStatus(sc) == IF sc.pages[1].kind = "fail" THEN REMOTE_FAILURE_STATUS ELSE REMOTE_SUCCESS_STATUS

ForeignDoc(sc) ==
  IF SinglePage(sc) THEN [url |-> 0, status |-> ForeignStatus(sc), phys |-> FALSE, auth |-> NoAuth] ELSE NoDoc

Irrelevant(sc) ==
  IF SinglePage(sc)
  THEN {Notif(IF ForeignStatus(sc) = REMOTE_FAILURE_STATUS THEN "failure" ELSE "success", "-", Foreign)}
  ELSE {}

\* The malformed requests a client may post during the crawl (tried on the
\* crawls of a single page, which keeps the state space small).
Malformed(sc) == IF SinglePage(sc) THEN {Notif("malformed", "-", 0)} ELSE {}

InitOn(S) ==
  /\ scenario \in S
  /\ taskStatus = [t \in Tasks |-> STATUS_SCHEDULED]
  /\ taskErrors = [t \in Tasks |-> 0]
  /\ docs = [i \in StoreIds |-> IF i \in DocIds THEN Seed(scenario, i) ELSE ForeignDoc(scenario)]
  /\ credType = [t \in Tasks |-> scenario.cred]
  /\ credSecrets = [t \in Tasks |-> credType[t] # "none"]
  /\ containers = [t \in Tasks |-> <<>>]
  /\ queue = <<>>
  /\ cur = NoJob
  /\ iqueue = <<>>
  /\ mon = [k \in 1..MaxMon |-> FreeSlot]
  /\ emitted = {Notif("scheduled", t, 0) : t \in Tasks} \cup Malformed(scenario) \cup Irrelevant(scenario)
  /\ delivered = {}
  /\ dups = 0
  /\ written = {}
  /\ handled = {}
  /\ minted = 0
  /\ alive = [q \in Queues |-> TRUE]
  /\ icur = 0

\* ------------------------------------------------------------ transport
\* The job an HTTP handler adds for a notification: POST /delta adds
\* processDelta, POST /on-download-failure adds onFailure.  A malformed
\* notification is a POST /on-download-failure whose body is not a list of
\* changesets.
JobFor(n) ==
  IF n.kind = "scheduled" THEN Job("claim", n.t, 0, "load")
  ELSE IF n.kind = "success" THEN Job("harvest", TaskOf(n.d), n.d, "ensure")
  ELSE IF n.kind = "failure" THEN Job("onFailure", TaskOf(n.d), n.d, "route")
  ELSE Job("onFailure", "-", 0, "route")

addJobFirst(q, j) == <<j>> \o q

\* addJob: appends to the queue and returns.
addJob(q, j) == Append(q, j)

\* The transport delivers a notification the store has produced: the first
\* time, or once more (at-least-once delivery, in any order).
Deliver(n) ==
  /\ n \in emitted
  /\ Len(queue) < MaxQueue
  /\ \/ n \notin delivered /\ dups' = dups
     \/ n \in delivered /\ dups < MaxDup /\ dups' = dups + 1
  /\ delivered' = delivered \cup {n}
  /\ queue' = addJob(queue, JobFor(n))
  /\ written' = {}
  /\ UNCHANGED <<scenario, taskStatus, taskErrors, docs, credType, credSecrets, containers,
                 cur, iqueue, mon, emitted, handled, minted, alive, icur>>

\* ------------------------------------------------------------ Main queue
\* ProcessingQueue.run: with a job waiting and none executing, take the
\* oldest one and mark the queue as executing.
\* run()'s test: a job is waiting and none is executing (run() itself must
\* still be scheduled to make the test).
canRun(q, executing, a) == a /\ Len(q) > 0 /\ ~executing

RunNext ==
  /\ canRun(queue, cur.kind # "none", alive["Main"])
  /\ cur' = Head(queue)
  /\ queue' = Tail(queue)
  /\ written' = {}
  /\ UNCHANGED <<scenario, taskStatus, taskErrors, docs, credType, credSecrets, containers,
                 iqueue, mon, emitted, delivered, dups, handled, minted, alive, icur>>

\* The job has run to completion: run()'s finally clears `executing`.
Finished == NoJob

\* run()'s catch: the job's onError is awaited and run() returns without
\* running or scheduling itself again.
RunCatch(a, q) == [a EXCEPT ![q] = FALSE]

\* ------------------------------------------------------------ claim
\* loadTask (lib/task.js): the task the entry names, with its operation.
NoTask == [task |-> "-", operation |-> "none"]

loadTask(sc, t) == IF sc.operation = "none" THEN NoTask ELSE [task |-> t, operation |-> sc.operation]

isCollectingTaskAlways(task) == TRUE

isCollectingTask(task) == task.operation = TASK_COLLECTING

\* updateTaskStatus (lib/task.js): replaces the task's status.
updateTaskStatus(ts, t, s) == [ts EXCEPT ![t] = s]

\* countRemoteDataObjects: the documents of the collection that have a status.
countRemoteDataObjects(d, t) == Cardinality({i \in Members(d, t) : d[i].status # NoStatus})

\* startCollectingTasks: load the task; a collecting task is set to busy and
\* scheduleRemoteDataObjectsForDownload counts the documents to seed.  (The
\* count does not depend on when it is read: the fetcher replaces a status,
\* it never adds or removes one, and documents are created by Main-queue
\* jobs only.)
ClaimLoad ==
  /\ cur.kind = "claim" /\ cur.pc = "load"
  /\ LET task == loadTask(scenario, cur.t)
         count == countRemoteDataObjects(docs, cur.t)
     IN IF task # NoTask /\ isCollectingTask(task)
        THEN /\ taskStatus' = updateTaskStatus(taskStatus, cur.t, STATUS_BUSY)
             /\ written' = {<<cur.t, STATUS_BUSY>>}
             /\ cur' = IF count > 0 THEN [cur EXCEPT !.pc = "delete", !.n = count, !.off = 0]
                       ELSE Finished
        ELSE /\ cur' = Finished
             /\ written' = {}
             /\ UNCHANGED taskStatus
  /\ UNCHANGED <<scenario, taskErrors, docs, credType, credSecrets, containers,
                 queue, iqueue, mon, emitted, delivered, dups, handled, minted, alive, icur>>

\* A DELETE that takes the whole document.
deleteDocument(doc) == NoDoc

\* The DELETE's template: the document's adms:status triple, nothing else.
deleteStatus(doc) == [doc EXCEPT !.status = NoStatus]

\* One DELETE of the clearing loop: the statuses of up to DELETE_BATCH_SIZE
\* documents (the LIMIT picks any of them).
ClaimDelete ==
  /\ cur.kind = "claim" /\ cur.pc = "delete"
  /\ LET withStatus == {i \in Members(docs, cur.t) : docs[i].status # NoStatus}
         k == IF Cardinality(withStatus) < DELETE_BATCH_SIZE
              THEN Cardinality(withStatus) ELSE DELETE_BATCH_SIZE
     IN \E S \in SUBSET withStatus :
          /\ Cardinality(S) = k
          /\ docs' = [i \in StoreIds |-> IF i \in S THEN deleteStatus(docs[i]) ELSE docs[i]]
  /\ cur' = IF cur.off + DELETE_BATCH_SIZE < cur.n
            THEN [cur EXCEPT !.off = @ + DELETE_BATCH_SIZE]
            ELSE [cur EXCEPT !.pc = "insert", !.off = 0]
  /\ written' = {}
  /\ UNCHANGED <<scenario, taskStatus, taskErrors, credType, credSecrets, containers,
                 queue, iqueue, mon, emitted, delivered, dups, handled, minted, alive, icur>>

\* A set of tasks as the list a SELECT returns.
RECURSIVE SortedTasks(_)
SortedTasks(S) ==
  IF S = {} THEN <<>>
  ELSE LET m == CHOOSE x \in S : TRUE
       IN <<m>> \o SortedTasks(S \ {m})

\* The documents of the collection in ascending uuid order (ORDER BY).
RECURSIVE SortedSeq(_)
SortedSeq(S) ==
  IF S = {} THEN <<>>
  ELSE LET m == CHOOSE x \in S : \A y \in S : x <= y
       IN <<m>> \o SortedSeq(S \ {m})

\* One INSERT of the seeding loop: the document at OFFSET off (LIMIT 1) gets
\* status ready-to-be-cached.
ClaimInsert ==
  /\ cur.kind = "claim" /\ cur.pc = "insert"
  /\ LET ordered == SortedSeq(Members(docs, cur.t)) IN
       docs' = IF cur.off + 1 <= Len(ordered)
               THEN [docs EXCEPT ![ordered[cur.off + 1]].status = REMOTE_READY_STATUS]
               ELSE docs
  /\ cur' = IF cur.off + 1 < cur.n THEN [cur EXCEPT !.off = @ + 1] ELSE Finished
  /\ written' = {}
  /\ UNCHANGED <<scenario, taskStatus, taskErrors, credType, credSecrets, containers,
                 queue, iqueue, mon, emitted, delivered, dups, handled, minted, alive, icur>>

isRelevantAlways(d, i) == TRUE

\* isRelevantRemoteDataObject: the subject is a remote data object of a
\* collection of a task.
isRelevantRemoteDataObject(d, i) == i \in DocIds /\ d[i].status # Absent

\* A selection that lets every subject through.
ensureFilesAlways(d, i) == TRUE

\* ------------------------------------------------------------ harvesting
\* ensureFilesAreReadyForHarvesting: of the relevant subjects of a
\* "status = success" insert, those that have status success (and are not
\* collected) are harvested, the others dropped.
ensureFilesAreReadyForHarvesting(d, i) == d[i].status = REMOTE_SUCCESS_STATUS

\* updateHarvestStatus on a task: a task always has a status to replace.
updateHarvestStatus(ts, t, s) == [ts EXCEPT ![t] = s]

\* processDelta up to the first write of processRemoteDataObject.  The reads
\* (the document's status, its physical file, its page) are of data no other
\* actor changes once the document is success, so they are taken at the
\* instant of the write.  deleteCredentials touches data only Main-queue jobs
\* read, so it is taken with the status write that follows it.
\*   - not success: dropped;
\*   - no physical file (else branch), or getLinkedUrls throws (catch):
\*     deleteCredentials, task failed;
\*   - otherwise the document becomes collected.
HarvestStart ==
  /\ cur.kind = "harvest" /\ cur.pc = "ensure"
  /\ IF ~isRelevantRemoteDataObject(docs, cur.d) \/ ~ensureFilesAreReadyForHarvesting(docs, cur.d)
     THEN /\ cur' = Finished
          /\ written' = {}
          /\ UNCHANGED <<docs, credSecrets, taskStatus, handled>>
     ELSE IF ~getPhysicalFile(docs, cur.d) \/ LinksThrow(scenario, docs, cur.d)
     THEN /\ credSecrets' = deleteCredentials(credSecrets, credType, cur.t)
          /\ taskStatus' = updateHarvestStatus(taskStatus, cur.t, TASK_STATUS_FAILED)
          /\ written' = {<<cur.t, TASK_STATUS_FAILED>>}
          /\ cur' = Finished
          /\ handled' = handled \cup {cur.d}
          /\ UNCHANGED docs
     ELSE /\ docs' = updateDocStatus(docs, cur.d, REMOTE_COLLECTED_STATUS)
          /\ cur' = LET urls == getLinkedUrls(scenario, docs, cur.d) IN
                      IF Len(urls) > 0 THEN [cur EXCEPT !.pc = "prepare", !.urls = urls, !.n = 1]
                      ELSE [cur EXCEPT !.pc = "isdone"]
          /\ written' = {}
          /\ handled' = handled \cup {cur.d}
          /\ UNCHANGED <<credSecrets, taskStatus>>
  /\ UNCHANGED <<scenario, taskErrors, credType, containers,
                 queue, iqueue, mon, emitted, delivered, dups, minted, alive, icur>>

\* The end of one iteration of prepareNewDownloads' loop.
NextUrl(j) == IF j.n < Len(j.urls) THEN [j EXCEPT !.n = @ + 1] ELSE Finished

\* getAuthInfoQuery: the scheme of the collection's configuration; its VALUES
\* clause lets only the basic and the OAuth2 scheme through.
AuthData(ct, t) == IF ct[t] \in {BASIC_AUTH, OAUTH2} THEN ct[t] ELSE "undefined"

\* How attachClonedAuthenticationConfiguraton ends: `return null` without
\* authData, the clone for a basic or OAuth2 secType, `throw new
\* Error('Unsupported Security type')` for any other secType.
CloneOutcome(ct, t) ==
  IF AuthData(ct, t) = "undefined" THEN "null"
  ELSE IF AuthData(ct, t) = BASIC_AUTH THEN "cloned"
  ELSE IF AuthData(ct, t) = OAUTH2 THEN "cloned"
  ELSE "throws"

\* attachClonedAuthenticationConfiguraton, called with m uuids minted so
\* far: it mints the configuration's identity, then the identities of an
\* OAuth2 scheme, OAuth2 credentials, a basic scheme and basic credentials.
\* Without a basic or OAuth2 configuration on the collection it returns
\* null.  Otherwise the INSERT writes one solution per match of its WHERE,
\* which needs the source's secrets: with the secrets gone nothing is
\* written.
attachClonedAuthenticationConfiguraton(ct, cs, t, m) ==
  IF AuthData(ct, t) = "undefined" THEN NoAuth
  ELSE IF ~cs[t] THEN NoAuth
  ELSE IF ct[t] = BASIC_AUTH
  THEN [type |-> BASIC_AUTH, conf |-> Uuid(m + 1), scheme |-> Uuid(m + 4), secrets |-> Uuid(m + 5),
        values |-> SecretValues(t)]
  ELSE [type |-> OAUTH2, conf |-> Uuid(m + 1), scheme |-> Uuid(m + 2), secrets |-> Uuid(m + 3),
        values |-> SecretValues(t)]

\* What a JavaScript expression evaluates to, as far as `if` can tell: the
\* boolean b, or an object (the parsed result of a query, whose member
\* `boolean` holds the answer of an ASK).
JsBoolean(b) == [type |-> "boolean", boolean |-> b]
JsObject(b) == [type |-> "object", boolean |-> b]

\* The condition of `if (v)`: an object is truthy whatever it holds.
Truthy(v) == v.type = "object" \/ v.boolean

\* hasAuth: `const boolean = await query(ASK); return boolean;` returns the
\* result of the query as it is.
hasAuth(ct, t) == JsObject(AuthData(ct, t) # "undefined")

\* prepareNewDownloads' choice for a new document: with a truthy hasAuth
\* the configuration is cloned onto it, otherwise it gets none.
authenticationFor(ct, cs, t, m) ==
  IF Truthy(hasAuth(ct, t)) THEN attachClonedAuthenticationConfiguraton(ct, cs, t, m) ELSE NoAuth

\* A new record the fetcher would not pick up: no status to start from.
NewDocumentIdle(url, auth) == [url |-> url, status |-> NoStatus, phys |-> FALSE, auth |-> auth]

\* The record prepareNewDownloads inserts for a URL, with the configuration
\* cloned onto it.
NewDocument(url, auth) == [url |-> url, status |-> REMOTE_READY_STATUS, phys |-> FALSE, auth |-> auth]

\* prepareNewDownloads, one URL: a URL no document of the collection has
\* becomes a new document of the collection.
prepareNewDownload(d, t, url, auth) ==
  IF hasBeenCollected(d, t, url) THEN d ELSE [d EXCEPT ![FreshDoc(d)] = NewDocument(url, auth)]

\* One iteration of prepareNewDownloads' loop.  An error thrown by the clone
\* lands in processRemoteDataObject's catch: deleteCredentials, task failed.
HarvestPrepare ==
  /\ cur.kind = "harvest" /\ cur.pc = "prepare"
  /\ hasBeenCollected(docs, cur.t, cur.urls[cur.n]) \/ \E i \in DocIds : docs[i].status = Absent
  /\ docs' = prepareNewDownload(docs, cur.t, cur.urls[cur.n],
                                authenticationFor(credType, credSecrets, cur.t, minted + 1))
  /\ minted' = IF hasBeenCollected(docs, cur.t, cur.urls[cur.n]) THEN minted ELSE minted + 6
  /\ IF /\ ~hasBeenCollected(docs, cur.t, cur.urls[cur.n])
        /\ Truthy(hasAuth(credType, cur.t)) /\ CloneOutcome(credType, cur.t) = "throws"
     THEN /\ credSecrets' = deleteCredentials(credSecrets, credType, cur.t)
          /\ taskStatus' = updateHarvestStatus(taskStatus, cur.t, TASK_STATUS_FAILED)
          /\ written' = {<<cur.t, TASK_STATUS_FAILED>>}
          /\ cur' = Finished
     ELSE /\ cur' = NextUrl(cur)
          /\ written' = {}
          /\ UNCHANGED <<credSecrets, taskStatus>>
  /\ UNCHANGED <<scenario, taskErrors, credType, containers,
                 queue, iqueue, mon, emitted, delivered, dups, handled, alive, icur>>

\* No link in the page: isHarvestingCollectionDone decides whether to wrap
\* up; wrapping up appends the results container, deletes the credentials
\* and sets the task to success.  (Once the collection is done no document
\* is in flight, so nothing the wrap-up reads can change while it runs.)
HarvestIsDone ==
  /\ cur.kind = "harvest" /\ cur.pc = "isdone"
  /\ IF isHarvestingCollectionDone(docs, cur.t, cur.d)
     THEN /\ containers' = appendCollectedFiles(containers, docs, cur.t)
          /\ credSecrets' = deleteCredentials(credSecrets, credType, cur.t)
          /\ taskStatus' = updateHarvestStatus(taskStatus, cur.t, TASK_STATUS_SUCCESS)
          /\ written' = {<<cur.t, TASK_STATUS_SUCCESS>>}
     ELSE /\ written' = {}
          /\ UNCHANGED <<containers, credSecrets, taskStatus>>
  /\ cur' = Finished
  /\ UNCHANGED <<scenario, taskErrors, docs, credType,
                 queue, iqueue, mon, emitted, delivered, dups, handled, minted, alive, icur>>

\* ------------------------------------------------------------ failure monitor
FreeSlots == {k \in 1..MaxMon : mon[k].st = "free"}
FirstFree == CHOOSE k \in FreeSlots : \A j \in FreeSlots : k <= j

\* setTimeout(callback, 300000) for the failed document.
Arm(m, k, d) == [m EXCEPT ![k] = [st |-> "timer", d |-> d]]

\* onFailure: a relevant failed document gets a handleDownloadFailure job on
\* the Main queue.
FailureRoute ==
  /\ cur.kind = "onFailure" /\ cur.d # 0
  /\ queue' = IF isRelevantRemoteDataObject(docs, cur.d)
               THEN addJob(queue, Job("hdf", cur.t, cur.d, "arm"))
               ELSE queue
  /\ cur' = Finished
  /\ written' = {}
  /\ UNCHANGED <<scenario, taskStatus, taskErrors, docs, credType, credSecrets, containers,
                 iqueue, mon, emitted, delivered, dups, handled, minted, alive, icur>>

\* onFailure for a malformed notification: getRemoteFileUris calls
\* delta.map on a body that is no list, the job throws.
FailureThrow ==
  /\ cur.kind = "onFailure" /\ cur.d = 0
  /\ cur' = Finished
  /\ alive' = RunCatch(alive, "Main")
  /\ written' = {}
  /\ UNCHANGED <<scenario, taskStatus, taskErrors, docs, credType, credSecrets, containers,
                 queue, iqueue, mon, emitted, delivered, dups, handled, minted, icur>>

\* handleDownloadFailure as a job of the Main queue: resolve the collection,
\* set the timer, return (the job ends before the check runs).
FailureArm ==
  /\ cur.kind = "hdf"
  /\ FreeSlots # {}
  /\ mon' = Arm(mon, FirstFree, cur.d)
  /\ cur' = Finished
  /\ written' = {}
  /\ UNCHANGED <<scenario, taskStatus, taskErrors, docs, credType, credSecrets, containers,
                 queue, iqueue, emitted, delivered, dups, handled, minted, alive, icur>>

\* The Internal queue's run() takes the oldest re-enqueued
\* handleDownloadFailure.
InternalRun ==
  /\ canRun(iqueue, icur # 0, alive["Internal"])
  /\ icur' = Head(iqueue)
  /\ iqueue' = Tail(iqueue)
  /\ written' = {}
  /\ UNCHANGED <<scenario, taskStatus, taskErrors, docs, credType, credSecrets, containers,
                 queue, cur, mon, emitted, delivered, dups, handled, minted, alive>>

\* handleDownloadFailure as a job of the Internal queue: resolve the
\* collection, set a new timer, return.
InternalArm ==
  /\ icur # 0
  /\ FreeSlots # {}
  /\ mon' = Arm(mon, FirstFree, icur)
  /\ icur' = 0
  /\ written' = {}
  /\ UNCHANGED <<scenario, taskStatus, taskErrors, docs, credType, credSecrets, containers,
                 queue, cur, iqueue, emitted, delivered, dups, handled, minted, alive>>

reEnqueueNothing(iq, d) == iq

\* The callback's else branch: INTERNAL_QUEUE.addJob of a
\* handleDownloadFailure for the same document.
reEnqueue(iq, d) == addJob(iq, d)

\* The delay has elapsed and the callback runs isHarvestingCollectionDone:
\* go on when the collection is done, otherwise re-enqueue
\* handleDownloadFailure on the Internal queue.
MonitorCheck(k) ==
  /\ mon[k].st = "timer"
  /\ IF isHarvestingCollectionDone(docs, TaskOf(mon[k].d), mon[k].d)
     THEN /\ mon' = [mon EXCEPT ![k].st = "status"]
          /\ UNCHANGED iqueue
     ELSE /\ iqueue' = reEnqueue(iqueue, mon[k].d)
          /\ mon' = [mon EXCEPT ![k] = FreeSlot]
  /\ written' = {}
  /\ UNCHANGED <<scenario, taskStatus, taskErrors, docs, credType, credSecrets, containers,
                 queue, cur, emitted, delivered, dups, handled, minted, alive, icur>>

\* getTaskStatus: a task that is success or failed ends the callback.
MonitorStatus(k) ==
  /\ mon[k].st = "status"
  /\ mon' = IF TerminalTask(taskStatus[TaskOf(mon[k].d)])
            THEN [mon EXCEPT ![k] = FreeSlot]
            ELSE [mon EXCEPT ![k].st = "collected"]
  /\ written' = {}
  /\ UNCHANGED <<scenario, taskStatus, taskErrors, docs, credType, credSecrets, containers,
                 queue, cur, iqueue, emitted, delivered, dups, handled, minted, alive, icur>>

\* hasRemoteObjectCollected chooses between success and failed.
MonitorCollected(k) ==
  /\ mon[k].st = "collected"
  /\ mon' = IF hasRemoteObjectCollected(docs, TaskOf(mon[k].d)) > 0
            THEN [mon EXCEPT ![k].st = "append"]
            ELSE [mon EXCEPT ![k].st = "fail"]
  /\ written' = {}
  /\ UNCHANGED <<scenario, taskStatus, taskErrors, docs, credType, credSecrets, containers,
                 queue, cur, iqueue, emitted, delivered, dups, handled, minted, alive, icur>>

MonitorAppend(k) ==
  /\ mon[k].st = "append"
  /\ containers' = appendCollectedFiles(containers, docs, TaskOf(mon[k].d))
  /\ mon' = [mon EXCEPT ![k].st = "succeed"]
  /\ written' = {}
  /\ UNCHANGED <<scenario, taskStatus, taskErrors, docs, credType, credSecrets,
                 queue, cur, iqueue, emitted, delivered, dups, handled, minted, alive, icur>>

MonitorSucceed(k) ==
  /\ mon[k].st = "succeed"
  /\ taskStatus' = updateHarvestStatus(taskStatus, TaskOf(mon[k].d), TASK_STATUS_SUCCESS)
  /\ written' = {<<TaskOf(mon[k].d), TASK_STATUS_SUCCESS>>}
  /\ mon' = [mon EXCEPT ![k] = FreeSlot]
  /\ UNCHANGED <<scenario, taskErrors, docs, credType, credSecrets, containers,
                 queue, cur, iqueue, emitted, delivered, dups, handled, minted, alive, icur>>

MonitorFail(k) ==
  /\ mon[k].st = "fail"
  /\ taskStatus' = updateHarvestStatus(taskStatus, TaskOf(mon[k].d), TASK_STATUS_FAILED)
  /\ written' = {<<TaskOf(mon[k].d), TASK_STATUS_FAILED>>}
  /\ mon' = [mon EXCEPT ![k] = FreeSlot]
  /\ UNCHANGED <<scenario, taskErrors, docs, credType, credSecrets, containers,
                 queue, cur, iqueue, emitted, delivered, dups, handled, minted, alive, icur>>

\* ------------------------------------------------------------ fetcher
\* The external download service: ready-to-be-cached -> ongoing ->
\* success | failure.  A success or a permanent failure is announced.
Emit(n) ==
  /\ emitted' = emitted \cup {n}
  /\ delivered' = delivered \ {n}

FetchStart(i) ==
  /\ docs[i].status = REMOTE_READY_STATUS
  /\ docs' = [docs EXCEPT ![i].status = REMOTE_ONGOING_STATUS]
  /\ written' = {}
  /\ UNCHANGED <<scenario, taskStatus, taskErrors, credType, credSecrets, containers,
                 queue, cur, iqueue, mon, emitted, delivered, dups, handled, minted, alive, icur>>

FetchSuccess(i) ==
  /\ docs[i].status = REMOTE_ONGOING_STATUS
  /\ scenario.pages[docs[i].url].kind # "fail"
  /\ docs' = [docs EXCEPT ![i].status = REMOTE_SUCCESS_STATUS,
                          ![i].phys = scenario.pages[docs[i].url].kind # "nofile"]
  /\ Emit(Notif("success", "-", i))
  /\ handled' = handled \ {i}
  /\ written' = {}
  /\ UNCHANGED <<scenario, taskStatus, taskErrors, credType, credSecrets, containers,
                 queue, cur, iqueue, mon, dups, minted, alive, icur>>

FetchFailure(i) ==
  /\ docs[i].status = REMOTE_ONGOING_STATUS
  /\ scenario.pages[docs[i].url].kind = "fail"
  /\ docs' = [docs EXCEPT ![i].status = REMOTE_FAILURE_STATUS]
  /\ Emit(Notif("failure", "-", i))
  /\ written' = {}
  /\ UNCHANGED <<scenario, taskStatus, taskErrors, credType, credSecrets, containers,
                 queue, cur, iqueue, mon, dups, handled, minted, alive, icur>>

\* ------------------------------------------------------------ specification
Next ==
  \/ \E n \in emitted : Deliver(n)
  \/ RunNext
  \/ ClaimLoad \/ ClaimDelete \/ ClaimInsert
  \/ HarvestStart \/ HarvestPrepare \/ HarvestIsDone
  \/ FailureRoute \/ FailureThrow \/ FailureArm \/ InternalRun \/ InternalArm
  \/ \E k \in 1..MaxMon :
       \/ MonitorCheck(k) \/ MonitorStatus(k) \/ MonitorCollected(k)
       \/ MonitorAppend(k) \/ MonitorSucceed(k) \/ MonitorFail(k)
  \/ \E i \in DocIds :
       \/ FetchStart(i) \/ FetchSuccess(i) \/ FetchFailure(i)

Init == InitOn(Scenarios)

Spec == Init /\ [][Next]_vars

\* The service on the deep crawl as well.
DeepInit == InitOn(Scenarios \cup DeepScenarios)

DeepSpec == DeepInit /\ [][Next]_vars

\* ------------------------------------------------------------ task status discipline
Edges == {<<STATUS_SCHEDULED, STATUS_BUSY>>, <<STATUS_BUSY, TASK_STATUS_SUCCESS>>,
          <<STATUS_BUSY, TASK_STATUS_FAILED>>}

\* C1: a task's status only ever moves scheduled -> busy -> success | failed,
\* and once it is success or failed no step writes a status of that task.
C1_StatusDiscipline ==
  [][\A t \in Tasks :
       /\ taskStatus'[t] # taskStatus[t] => <<taskStatus[t], taskStatus'[t]>> \in Edges
       /\ TerminalTask(taskStatus[t]) => \A s \in {STATUS_SCHEDULED, STATUS_BUSY, TASK_STATUS_SUCCESS, TASK_STATUS_FAILED} : <<t, s>> \notin written']_vars

\* ------------------------------------------------------------ completion
\* The documents of the collection that are still in flight: waiting for the
\* fetcher, being fetched, or fetched and not yet processed.
InFlight(d, t) == {i \in Members(d, t) : d[i].status \in InFlightStatuses}

\* C2: a step that writes success for a task leaves a store in which no
\* document of the task's collection is ready-to-be-cached, ongoing or success.
C2_SuccessOnlyWhenComplete ==
  \A t \in Tasks : <<t, TASK_STATUS_SUCCESS>> \in written => InFlight(docs, t) = {}

\* Nothing is left to happen: every document is resolved, every notification
\* has been delivered and its job has run, no timer is pending and no
\* callback is running.
Settled ==
  /\ \A t \in Tasks : InFlight(docs, t) = {}
  /\ emitted \subseteq delivered
  /\ queue = <<>> /\ cur = NoJob
  /\ iqueue = <<>> /\ \A k \in 1..MaxMon : mon[k] = FreeSlot

\* C3: a busy task reaches success or failed once every document is resolved
\* and every notification has been delivered and processed; so when nothing
\* is left to happen the task is not busy.
C3_SettledIsTerminal ==
  \A t \in Tasks : Settled => taskStatus[t] # STATUS_BUSY

\* ------------------------------------------------------------ redelivery
\* The harvest job of a "status = success" notification that is starting on
\* a document a previous harvest job already dealt with, the fetcher not
\* having touched the document since: the job of a second delivery.
SecondDelivery ==
  /\ cur.kind = "harvest" /\ cur.pc = "ensure"
  /\ cur.d \in handled

\* C4: processing a second delivery of a "status = success" notification
\* changes no document, no document status, no task status and no results
\* container (so it creates no document either).
C4_SecondDeliveryIsNoOp ==
  [][SecondDelivery /\ cur' # cur => UNCHANGED <<docs, taskStatus, containers>>]_vars

\* ------------------------------------------------------------ de-duplication
\* C5: no two documents of a collection have the same URL.
C5_NoDuplicateUrl ==
  \A t \in Tasks : \A i, j \in Members(docs, t) : docs[i].url = docs[j].url => i = j

\* Two pages have linked to URL 3 (both seeds of the fifth crawl do) and both
\* have been processed to the end.
C5_LinkedTwice ==
  /\ scenario.seeds = <<1, 2>> /\ scenario.pages[1].kind = "ok"
  /\ docs[1].status = REMOTE_COLLECTED_STATUS /\ docs[1].phys
  /\ docs[2].status = REMOTE_COLLECTED_STATUS /\ docs[2].phys
  /\ docs[3].url = 3
  /\ cur = NoJob

\* ------------------------------------------------------------ completeness law
\* What a document of a collection can carry as status.
DocStatuses == {NoStatus, REMOTE_READY_STATUS, REMOTE_ONGOING_STATUS, REMOTE_SUCCESS_STATUS,
                REMOTE_FAILURE_STATUS, REMOTE_COLLECTED_STATUS}

\* Any collection mid-crawl: each identity absent or a document with any
\* status, a harvest job about to run the completeness test for one of the
\* documents and a failure-monitor timer about to fire for another.
LawInit ==
  /\ scenario = Crawl("none", <<1>>, Leaf, Leaf, Leaf)
  /\ taskStatus = [t \in Tasks |-> STATUS_BUSY]
  /\ taskErrors = [t \in Tasks |-> 0]
  /\ \E f \in [DocIds -> {NoDoc} \cup {[url |-> u, status |-> st, phys |-> FALSE, auth |-> NoAuth] : u \in DocIds, st \in DocStatuses}] :
       docs = [i \in StoreIds |-> IF i \in DocIds THEN f[i] ELSE NoDoc]
  /\ \A i \in DocIds : docs[i] # NoDoc => docs[i].url = i
  /\ credType = [t \in Tasks |-> "none"]
  /\ credSecrets = [t \in Tasks |-> FALSE]
  /\ containers = [t \in Tasks |-> <<>>]
  /\ queue = <<>>
  /\ \E d \in Members(docs, "T1") : cur = Job("harvest", "T1", d, "isdone")
  /\ iqueue = <<>>
  /\ \E d \in Members(docs, "T1") : mon = [k \in 1..MaxMon |-> IF k = 1 THEN [st |-> "timer", d |-> d] ELSE FreeSlot]
  /\ emitted = {}
  /\ delivered = {}
  /\ dups = 0
  /\ written = {}
  /\ handled = {}
  /\ minted = 0
  /\ alive = [q \in Queues |-> TRUE]
  /\ icur = 0

LawNext == HarvestIsDone \/ MonitorCheck(1)

LawSpec == LawInit /\ [][LawNext]_vars

\* C6: the completeness test for document rdo answers true exactly when no
\* other document of the collection is ready-to-be-cached, ongoing or
\* success; the status of rdo itself does not change the answer; and with
\* one more document in one of those three statuses the answer is false.
C6_CompletenessLaw ==
  \A t \in Tasks : \A rdo \in Members(docs, t) :
    /\ isHarvestingCollectionDone(docs, t, rdo)
          <=> \A i \in Members(docs, t) \ {rdo} :
                 docs[i].status \notin {"ready-to-be-cached", "ongoing", "file-success"}
    /\ \A st \in DocStatuses :
          isHarvestingCollectionDone([docs EXCEPT ![rdo].status = st], t, rdo)
            = isHarvestingCollectionDone(docs, t, rdo)
    /\ \A j \in DocIds \ Members(docs, t) :
          \A st \in {"ready-to-be-cached", "ongoing", "file-success"} :
            ~isHarvestingCollectionDone([docs EXCEPT ![j] = [NewDocument(j, "none") EXCEPT !.status = st]], t, rdo)

\* The monitor's test has answered true for a document that is itself
\* fetched and unprocessed, next to a failed and a collected one.
C6_DoneDespiteOwnStatus ==
  /\ mon[1].st = "status"
  /\ docs[mon[1].d].status = REMOTE_SUCCESS_STATUS
  /\ \E i, j \in Members(docs, "T1") \ {mon[1].d} :
        docs[i].status = REMOTE_FAILURE_STATUS /\ docs[j].status = REMOTE_COLLECTED_STATUS

\* ------------------------------------------------------------ wrap-up
\* A harvest job found no link in its page and is about to run the
\* completeness test.
AtCompletenessTest == cur.kind = "harvest" /\ cur.pc = "isdone"

\* C7: when a fetched document with a physical file yields no link and every
\* other document of the collection is resolved, the job that processes it
\* has marked it collected and takes the busy task straight to success, with
\* one more results container that lists that document and every other
\* document of the collection that has a physical file.
C7_LeafCompletes ==
  [][/\ (cur.kind = "harvest" /\ cur.pc = "ensure" /\ cur' # cur
          /\ docs[cur.d].status = REMOTE_SUCCESS_STATUS /\ docs[cur.d].phys
          /\ scenario.pages[docs[cur.d].url] = Page("ok", <<>>))
       => /\ docs'[cur.d].status = REMOTE_COLLECTED_STATUS
          /\ AtCompletenessTest' /\ cur'.d = cur.d
          /\ written' = {}
     /\ (AtCompletenessTest /\ cur' # cur /\ taskStatus[cur.t] = STATUS_BUSY
          /\ \A i \in Members(docs, cur.t) \ {cur.d} :
                docs[i].status \notin {"ready-to-be-cached", "ongoing", "file-success"})
       => /\ docs[cur.d].status = REMOTE_COLLECTED_STATUS /\ docs[cur.d].phys
          /\ docs' = docs
          /\ taskStatus'[cur.t] = TASK_STATUS_SUCCESS
          /\ written' = {<<cur.t, TASK_STATUS_SUCCESS>>}
          /\ Len(containers'[cur.t]) = Len(containers[cur.t]) + 1
          /\ SubSeq(containers'[cur.t], 1, Len(containers[cur.t])) = containers[cur.t]
          /\ LET c == containers'[cur.t][Len(containers'[cur.t])]
             IN cur.d \in c /\ c = {i \in Members(docs, cur.t) : docs[i].phys}]_vars

\* The single seed of the first crawl has been fetched and processed: it is
\* collected, the task is success and the one results container lists it.
C7_LeafCompleted ==
  /\ scenario.seeds = <<1>> /\ scenario.pages[1] = Leaf
  /\ docs[1].status = REMOTE_COLLECTED_STATUS
  /\ written = {<<"T1", TASK_STATUS_SUCCESS>>}
  /\ cur = NoJob
  /\ containers["T1"] = <<{1}>>

\* ------------------------------------------------------------ discovery
\* A harvest job is in prepareNewDownloads' loop, at a URL.
AtLink == cur.kind = "harvest" /\ cur.pc = "prepare"

\* C8: a link to a URL no document of the collection has makes exactly one
\* new document, in the same collection, with that URL and status
\* ready-to-be-cached, and changes no other document; the processed document
\* is collected; the job writes no task status, so a busy task stays busy.
C8_DiscoveryCreatesOne ==
  [][/\ (AtLink /\ cur' # cur
          /\ \A i \in Members(docs, cur.t) : docs[i].url # cur.urls[cur.n])
       => /\ Cardinality(Members(docs', cur.t) \ Members(docs, cur.t)) = 1
          /\ \A i \in Members(docs', cur.t) \ Members(docs, cur.t) :
                /\ docs'[i].url = cur.urls[cur.n]
                /\ docs'[i].status = "ready-to-be-cached"
          /\ \A i \in Members(docs, cur.t) : docs'[i] = docs[i]
     /\ (AtLink /\ cur' # cur)
       => /\ docs[cur.d].status = REMOTE_COLLECTED_STATUS
          /\ written' = {} /\ taskStatus' = taskStatus
          /\ cur' = NoJob \/ (AtLink' /\ cur'.d = cur.d)]_vars

\* The seed of the fourth crawl links to URLs 2 and 3: the job has made the
\* document for URL 2 and is at the link to URL 3, the task still busy.
C8_Discovered ==
  /\ AtLink /\ cur.d = 1 /\ cur.n = 2
  /\ docs[1].status = REMOTE_COLLECTED_STATUS
  /\ docs[2] = [url |-> 2, status |-> REMOTE_READY_STATUS, phys |-> FALSE, auth |-> NoAuth]
  /\ docs[3].status = Absent
  /\ taskStatus["T1"] = STATUS_BUSY

\* ------------------------------------------------------------ failure monitor outcome
\* C9: a check of the failure monitor that found the collection complete and
\* the task neither success nor failed sets the task to success when at
\* least one document of the collection is collected at its read, and to
\* failed when none is; it goes that far only after such findings.
C9_MonitorOutcome ==
  [][\A k \in 1..MaxMon :
       LET t == TaskOf(mon[k].d)
           anyCollected == \E i \in Members(docs, t) : docs[i].status = "collected"
       IN /\ (mon[k].st = "timer" /\ mon'[k].st = "status")
               => \A i \in Members(docs, t) \ {mon[k].d} :
                     docs[i].status \notin {"ready-to-be-cached", "ongoing", "file-success"}
          /\ (mon[k].st = "status" /\ mon'[k] # mon[k])
               => (mon'[k].st = "collected" <=> taskStatus[t] \notin {"success", "failed"})
          /\ (mon[k].st = "collected" /\ mon'[k] # mon[k])
               => IF anyCollected THEN mon'[k].st = "append" ELSE mon'[k].st = "fail"
          /\ (mon[k].st = "append" /\ mon'[k] # mon[k]) => mon'[k].st = "succeed"
          /\ (mon[k].st = "succeed" /\ mon'[k] # mon[k])
               => taskStatus'[t] = "success" /\ written' = {<<t, "success">>}
          /\ (mon[k].st = "fail" /\ mon'[k] # mon[k])
               => taskStatus'[t] = "failed" /\ written' = {<<t, "failed">>}]_vars

\* The seventh crawl: the seed is collected, the page it links to failed for
\* good, and the monitor has just set the task to success.
C9_PartialSuccess ==
  /\ docs[1].status = REMOTE_COLLECTED_STATUS
  /\ docs[2].status = REMOTE_FAILURE_STATUS
  /\ docs[3].status = Absent
  /\ written = {<<"T1", TASK_STATUS_SUCCESS>>}
  /\ containers["T1"] = <<{1}>>
  /\ cur = NoJob /\ queue = <<>>

\* C10: when the only document of a collection has failed for good and the
\* failure monitor has set the task to failed, the credentials of the
\* collection are deleted.
C10_FailedDeletesCredentials ==
  \A t \in Tasks :
    (/\ Cardinality(Members(docs, t)) = 1
     /\ \A i \in Members(docs, t) : docs[i].status = REMOTE_FAILURE_STATUS
     /\ taskStatus[t] = TASK_STATUS_FAILED
     /\ \A k \in 1..MaxMon : mon[k] = FreeSlot)
    => ~credSecrets[t]

\* ------------------------------------------------------------ credential propagation
\* The documents link discovery created (the seeds came with the collection).
Discovered(d, t) == {i \in Members(d, t) : i > Len(scenario.seeds)}

\* The identities of a configuration: itself, its scheme, its secrets.
Identities(a) == {a.conf, a.scheme, a.secrets}

\* C11: every document link discovery created in a collection with a basic
\* or OAuth2 configuration has its own configuration of the same scheme,
\* whose three identities are fresh (distinct from each other, from the
\* collection's and from every other document's) and whose secret values
\* are the collection's.
C11_ClonePropagation ==
  \A t \in Tasks : credType[t] \in {"basic", "oauth2"} =>
    \A i \in Discovered(docs, t) :
      /\ docs[i].auth.type = credType[t]
      /\ docs[i].auth.values = SecretValues(t)
      /\ Cardinality(Identities(docs[i].auth)) = 3
      /\ Identities(docs[i].auth) \cap {SourceId(t, "conf"), SourceId(t, "scheme"), SourceId(t, "secrets")} = {}
      /\ \A j \in Discovered(docs, t) \ {i} : Identities(docs[i].auth) \cap Identities(docs[j].auth) = {}

\* C12: link discovery in a collection whose configuration has a scheme
\* other than basic or OAuth2 ends in a fault: the clone throws, and the job
\* that called it ends by failing the task instead of creating a document
\* without configuration.
C12_UnsupportedSchemeFaults ==
  [][\A t \in Tasks :
       (AtLink /\ cur.t = t /\ cur' # cur
        /\ credType[t] \notin {"none", "basic", "oauth2"}
        /\ \A i \in Members(docs, t) : docs[i].url # cur.urls[cur.n])
       => /\ CloneOutcome(credType, t) = "throws"
          /\ written' = {<<t, TASK_STATUS_FAILED>>}]_vars

\* ------------------------------------------------------------ credential lifetime
\* C13: whenever the task is success or failed, by whichever path it got
\* there, the secrets of a collection with a basic or OAuth2 configuration
\* have been deleted.
C13_TerminalMeansDeleted ==
  \A t \in Tasks :
    (TerminalTask(taskStatus[t]) /\ credType[t] \in {"basic", "oauth2"}) => ~credSecrets[t]

\* The documents the fetcher has still to fetch.
ToFetch(d, t) == {i \in Members(d, t) : d[i].status \in {REMOTE_READY_STATUS, REMOTE_ONGOING_STATUS}}

\* This step of a job of task t calls deleteCredentials: each of the three
\* calls is in a document's processing, directly before its write of the
\* task's status.
DeleteCalled(t) == cur.kind = "harvest" /\ cur.t = t /\ written' # {}

\* C14: deleteCredentials is called at most once in the life of a task (so
\* not again once the secrets are gone), only by a step that sets the task to
\* success or failed, and never while the task is busy with documents still
\* to be fetched.
C14_DeletedOnceAtFinalization ==
  [][\A t \in Tasks : credType[t] \in {"basic", "oauth2"} =>
       /\ DeleteCalled(t) => credSecrets[t]
       /\ credSecrets'[t] # credSecrets[t] => \E st \in {"success", "failed"} : <<t, st>> \in written'
       /\ (taskStatus[t] = "busy" /\ ToFetch(docs, t) # {}) => credSecrets'[t] = credSecrets[t]]_vars

\* ------------------------------------------------------------ the queues
\* The queue is executing a job (its `executing` flag is set).
Executing(q) == IF q = "Main" THEN cur.kind # "none" ELSE icur # 0

\* A monitor callback is between its completeness check and its last write.
InCallback(k) == mon[k].st \notin {"free", "timer"}

\* C15: at most one unit of work is executing in the process at any time,
\* however many jobs were added while a job was suspended.
C15_OneUnitAtATime ==
  Cardinality({q \in Queues : Executing(q)}) <= 1

\* C16: no two orchestrator transitions run concurrently: while a claim, a
\* document's processing or a monitor's check and finalization is between
\* its first read and its last write, no other transition is.
C16_TransitionsSerialized ==
  Cardinality({k \in 1..MaxMon : InCallback(k)}) + (IF cur.kind \in {"claim", "harvest"} THEN 1 ELSE 0) <= 1

\* C17: a job that throws has its error handler called and the drain loop
\* goes on: the queue's run() is still scheduled after the failed job, so
\* later jobs are executed.
C17_LoopSurvivesError ==
  [][(cur.kind = "onFailure" /\ cur.d = 0 /\ cur' = Finished) => alive'["Main"]]_vars

\* One step of a queue: nothing, a job added behind the waiting ones, or the
\* job at the front started.
FifoStep(q, q2, started) ==
  \/ q2 = q
  \/ Len(q2) = Len(q) + 1 /\ SubSeq(q2, 1, Len(q)) = q
  \/ Len(q) > 0 /\ q2 = Tail(q) /\ started = Head(q)

\* C18: each queue starts its jobs in the order they were added: a job is
\* added behind the jobs already waiting, and the job started is the one
\* waiting longest.
C18_Fifo ==
  [][FifoStep(queue, queue', cur') /\ FifoStep(iqueue, iqueue', icur')]_vars

\* Two different jobs are waiting, so the order of starting them matters.
C18_TwoWaiting ==
  Len(queue) >= 2 /\ queue[1] # queue[2]

\* C19: no job is lost: a job that was added and has not been started will
\* still be started, its queue's run() being scheduled.
C19_NoJobLost ==
  /\ Len(queue) > 0 => alive["Main"]
  /\ Len(iqueue) > 0 => alive["Internal"]

\* ------------------------------------------------------------ re-checking
\* The failure monitor watches document d: a timer is pending for it or a
\* re-enqueued handleDownloadFailure is waiting or executing.
Watching(d) ==
  \/ \E k \in 1..MaxMon : mon[k] = [st |-> "timer", d |-> d]
  \/ \E n \in 1..Len(iqueue) : iqueue[n] = d
  \/ icur = d

MonitorWrites(k) == mon[k].st \in {"succeed", "fail"} /\ mon'[k] # mon[k]

\* C21: a failure check that finds the collection complete and the task
\* already success or failed changes nothing; so however often the failure
\* notification of a document is delivered, the monitor finalizes the task
\* at most once: no callback writes the status of a task that is already
\* success or failed.
C21_MonitorGuard ==
  [][\A k \in 1..MaxMon :
       /\ (mon[k].st = "status" /\ mon'[k] # mon[k] /\ TerminalTask(taskStatus[TaskOf(mon[k].d)]))
          => /\ UNCHANGED <<taskStatus, taskErrors, containers, docs, credSecrets>>
             /\ written' = {}
             /\ mon'[k] = FreeSlot
       /\ MonitorWrites(k) => ~TerminalTask(taskStatus[TaskOf(mon[k].d)])]_vars

\* C22: the monitor's delayed check holds no job slot while it waits, and
\* when the delay has elapsed the check and the finalization run as a job
\* of a queue: every step of a callback is taken while a queue is executing a
\* job.
C22_CheckRunsAsJob ==
  [][\A k \in 1..MaxMon :
       (mon[k].st # "free" /\ mon'[k] # mon[k]) => \E q \in Queues : Executing(q)]_vars

\* ------------------------------------------------------------ faults
\* The job is starting on a document that is success.
AtStart ==
  /\ cur.kind = "harvest" /\ cur.pc = "ensure"
  /\ cur.d \in Members(docs, cur.t) /\ docs[cur.d].status = REMOTE_SUCCESS_STATUS

\* C23: a document that is success but has no physical file fails the task
\* at once: the job sets the task to failed and ends, the document is not
\* marked collected (nor seeded again), no document is created and no
\* results container is attached.
C23_ContentFault ==
  [][(AtStart /\ ~docs[cur.d].phys /\ cur' # cur)
     => /\ taskStatus'[cur.t] = TASK_STATUS_FAILED
        /\ written' = {<<cur.t, TASK_STATUS_FAILED>>}
        /\ docs' = docs
        /\ containers' = containers
        /\ cur' = Finished /\ queue' = queue]_vars

\* A content fault has just failed the task.
C23_ContentFaulted ==
  /\ written = {<<"T1", TASK_STATUS_FAILED>>}
  /\ \E i \in handled : docs[i].status = REMOTE_SUCCESS_STATUS /\ ~docs[i].phys

\* C24: an unexpected error while processing a document of a known task (here:
\* the page cannot be read) ends with the task failed and one more entry in
\* the task's list of error messages.
C24_ProcessingFaultRecorded ==
  [][(AtStart /\ docs[cur.d].phys /\ LinksThrow(scenario, docs, cur.d) /\ cur' # cur)
     => /\ taskStatus'[cur.t] = TASK_STATUS_FAILED
        /\ taskErrors'[cur.t] = taskErrors[cur.t] + 1]_vars

\* ------------------------------------------------------------ completeness
\* C29: a job whose page has links, all of them documents of the collection
\* already (here: its one link), creates no document; it tests completeness
\* and, the collection being complete, moves the task from busy to success.
C29_KnownLinksComplete ==
  [][(/\ AtLink /\ cur.n = 1 /\ Len(cur.urls) = 1 /\ cur' # cur
      /\ \E i \in Members(docs, cur.t) : docs[i].url = cur.urls[1]
      /\ \A i \in Members(docs, cur.t) \ {cur.d} : docs[i].status \notin InFlightStatuses
      /\ taskStatus[cur.t] = STATUS_BUSY)
     => taskStatus'[cur.t] = TASK_STATUS_SUCCESS]_vars

\* ------------------------------------------------------------ document statuses
\* A step of the service (a job or a monitor callback), not of the fetcher
\* or the transport.
ServiceStep == <<cur, icur, mon>>' # <<cur, icur, mon>>

\* C30: outside a claim the service changes the status of a document only
\* from success to collected; a job that starts on a document that is not
\* success is dropped without a write.
C30_OnlySuccessToCollected ==
  [][/\ (ServiceStep /\ cur.kind # "claim")
        => \A i \in DocIds :
             (docs[i].status # Absent /\ docs'[i].status # docs[i].status)
             => docs[i].status = REMOTE_SUCCESS_STATUS /\ docs'[i].status = REMOTE_COLLECTED_STATUS
     /\ (cur.kind = "harvest" /\ cur.pc = "ensure" /\ cur' # cur
         /\ docs[cur.d].status # REMOTE_SUCCESS_STATUS)
        => /\ cur' = Finished /\ written' = {}
           /\ UNCHANGED <<docs, taskStatus, containers, credSecrets>>]_vars

\* A job is starting on a document that a claim has seeded again since its
\* success was announced.
C30_StaleNotification ==
  /\ cur.kind = "harvest" /\ cur.pc = "ensure"
  /\ docs[cur.d].status \in {REMOTE_READY_STATUS, REMOTE_ONGOING_STATUS, REMOTE_FAILURE_STATUS, REMOTE_COLLECTED_STATUS}

\* ------------------------------------------------------------ routing
\* C26: a scheduled notification for a task whose operation is not
\* collecting, or for a subject that is no loadable task, changes nothing:
\* the status stays as it was and no document status is cleared or seeded.
C26_OtherOperationIgnored ==
  [][(cur.kind = "claim" /\ cur' # cur /\ scenario.operation # "collecting")
     => /\ UNCHANGED <<taskStatus, taskErrors, docs, containers, credSecrets>>
        /\ written' = {}
        /\ cur' = Finished]_vars

\* The scheduled notification of a task of another operation has been
\* processed.
C26_OtherOperationSeen ==
  /\ scenario.operation = "importing"
  /\ Notif("scheduled", "T1", 0) \in delivered /\ queue = <<>> /\ cur = NoJob
  /\ taskStatus["T1"] = STATUS_SCHEDULED

\* C27: a success or failure statement whose subject is no document of a
\* collection of a task triggers nothing: its job ends without a write to
\* the store, without a further job and without a failure check.
C27_IrrelevantDropped ==
  [][(cur.kind \in {"harvest", "onFailure"} /\ cur.d = Foreign /\ cur' # cur)
     => /\ UNCHANGED <<docs, taskStatus, taskErrors, containers, credSecrets, credType>>
        /\ UNCHANGED <<queue, iqueue, icur, mon>>
        /\ written' = {}
        /\ cur' = Finished]_vars

\* The statement about the foreign document has been delivered and its job
\* has run.
C27_IrrelevantSeen ==
  /\ \E n \in delivered : n.d = Foreign
  /\ queue = <<>> /\ cur = NoJob

\* ------------------------------------------------------------ the claim alone
\* A scheduled collecting task whose collection holds documents in any
\* status (a retried or re-scheduled task), at the start of its claim; the
\* fetcher does not act.
ClaimInit ==
  /\ scenario = Crawl("none", <<1>>, Leaf, Leaf, Leaf)
  /\ taskStatus = [t \in Tasks |-> STATUS_SCHEDULED]
  /\ taskErrors = [t \in Tasks |-> 0]
  /\ \E f \in [DocIds -> {NoDoc} \cup {[url |-> u, status |-> st, phys |-> FALSE, auth |-> NoAuth] : u \in DocIds, st \in DocStatuses}] :
       docs = [i \in StoreIds |-> IF i \in DocIds THEN f[i] ELSE NoDoc]
  /\ \A i \in DocIds : docs[i] # NoDoc => docs[i].url = i
  /\ credType = [t \in Tasks |-> "none"]
  /\ credSecrets = [t \in Tasks |-> FALSE]
  /\ containers = [t \in Tasks |-> <<>>]
  /\ queue = <<>>
  /\ cur = Job("claim", "T1", 0, "load")
  /\ iqueue = <<>>
  /\ mon = [k \in 1..MaxMon |-> FreeSlot]
  /\ emitted = {}
  /\ delivered = {}
  /\ dups = 0
  /\ written = {}
  /\ handled = {}
  /\ minted = 0
  /\ alive = [q \in Queues |-> TRUE]
  /\ icur = 0

ClaimNext == ClaimLoad \/ ClaimDelete \/ ClaimInsert

ClaimSpec == ClaimInit /\ [][ClaimNext]_vars

\* C25: once the claim of a collecting task has completed, the task is busy
\* and every document of its collection, whatever status it had before
\* (none included), has status ready-to-be-cached.
C25_ClaimPostcondition ==
  (cur = Finished /\ taskStatus["T1"] = STATUS_BUSY)
    => \A i \in Members(docs, "T1") : docs[i].status = REMOTE_READY_STATUS

\* ------------------------------------------------------------ the cron trigger
\* ALLOW_CRON_JOB as documented: default 'false'.
ALLOW_CRON_JOB == FALSE

\* new CronJob(CRON_FREQUENCY, onTick, null, true): the fourth argument
\* starts the job at construction; no setting is read.
CronJobStarted == TRUE

\* getScheduledTasks: the scheduled collecting tasks, in some fixed order.
getScheduledTasks(ts, sc) ==
  SortedTasks({t \in Tasks : ts[t] = STATUS_SCHEDULED /\ sc.operation = TASK_COLLECTING})

\* The cron's onTick: processScheduledTasks is added to the Main queue.
CronTick ==
  /\ CronJobStarted
  /\ Len(queue) < MaxQueue
  /\ queue' = addJob(queue, Job("cron", "-", 0, "scheduled"))
  /\ written' = {}
  /\ UNCHANGED <<scenario, taskStatus, taskErrors, docs, credType, credSecrets, containers,
                 cur, iqueue, mon, emitted, delivered, dups, handled, minted, alive, icur>>

\* processScheduledTasks: with a scheduled task, startCollectingTasks runs
\* on the first one within the same job; without, the job ends.
CronRun ==
  /\ cur.kind = "cron"
  /\ LET scheduledTasks == getScheduledTasks(taskStatus, scenario) IN
       cur' = IF Len(scheduledTasks) > 0
              THEN Job("claim", scheduledTasks[1], 0, "load")
              ELSE Finished
  /\ written' = {}
  /\ UNCHANGED <<scenario, taskStatus, taskErrors, docs, credType, credSecrets, containers,
                 queue, iqueue, mon, emitted, delivered, dups, handled, minted, alive, icur>>

\* The service with its cron trigger and no notification at all.
CronInit ==
  /\ scenario \in Scenarios
  /\ taskStatus = [t \in Tasks |-> STATUS_SCHEDULED]
  /\ taskErrors = [t \in Tasks |-> 0]
  /\ docs = [i \in StoreIds |-> IF i \in DocIds THEN Seed(scenario, i) ELSE ForeignDoc(scenario)]
  /\ credType = [t \in Tasks |-> scenario.cred]
  /\ credSecrets = [t \in Tasks |-> credType[t] # "none"]
  /\ containers = [t \in Tasks |-> <<>>]
  /\ queue = <<>>
  /\ cur = NoJob
  /\ iqueue = <<>>
  /\ mon = [k \in 1..MaxMon |-> FreeSlot]
  /\ emitted = {}
  /\ delivered = {}
  /\ dups = 0
  /\ written = {}
  /\ handled = {}
  /\ minted = 0
  /\ alive = [q \in Queues |-> TRUE]
  /\ icur = 0

CronNext == CronTick \/ RunNext \/ CronRun \/ ClaimLoad \/ ClaimDelete \/ ClaimInsert

CronSpec == CronInit /\ [][CronNext]_vars

\* C28: with ALLOW_CRON_JOB false the cron trigger never claims a scheduled
\* task: without a delivered notification no task leaves scheduled.
C28_CronGated ==
  [][\A t \in Tasks :
       (delivered = {} /\ taskStatus[t] = STATUS_SCHEDULED /\ taskStatus'[t] # STATUS_SCHEDULED)
         => ALLOW_CRON_JOB]_vars

\* ------------------------------------------------------------ seeding order
Seeding == cur.kind = "claim" /\ cur.pc = "insert"

\* The documents the step gives another status.
Restatused == {i \in DocIds : docs'[i].status # docs[i].status}

\* C31: during a claim no document is seeded before every prior status is
\* cleared; each seeding write gives ready-to-be-cached to exactly one
\* document, the next in ascending order of identity; when the seeding ends
\* every document of the collection has been seeded, none skipped.
C31_SeedingOrder ==
  [][(Seeding /\ cur' # cur)
     => LET ordered == SortedSeq(Members(docs, cur.t)) IN
          /\ \A i \in Members(docs, cur.t) :
                docs[i].status = IF \E k \in 1..cur.off : ordered[k] = i
                                 THEN REMOTE_READY_STATUS ELSE NoStatus
          /\ Restatused = {ordered[cur.off + 1]}
          /\ docs'[ordered[cur.off + 1]].status = REMOTE_READY_STATUS
          /\ cur' = Finished => \A i \in Members(docs, cur.t) : docs'[i].status = REMOTE_READY_STATUS]_vars

\* ------------------------------------------------------------ crash and restart
\* The notifications whose job is j.
Trigger(j) == {n \in emitted : JobFor(n).kind = j.kind /\ JobFor(n).t = j.t /\ JobFor(n).d = j.d}

\* The process dies after the first store write of a claim or of a
\* document's processing and is started again: the queues, the executing
\* job and the timers live in memory only and are gone, the store is as the
\* writes left it; the transport delivers again what the dead process was
\* working on or had waiting.
Crash ==
  /\ \/ cur.kind = "claim" /\ cur.pc \in {"delete", "insert"}
     \/ cur.kind = "harvest" /\ cur.pc \in {"prepare", "isdone"}
  /\ cur' = NoJob
  /\ queue' = <<>>
  /\ iqueue' = <<>>
  /\ icur' = 0
  /\ mon' = [k \in 1..MaxMon |-> FreeSlot]
  /\ alive' = [q \in Queues |-> TRUE]
  /\ delivered' = delivered \ (Trigger(cur) \cup UNION {Trigger(queue[k]) : k \in 1..Len(queue)})
  /\ written' = {}
  /\ UNCHANGED <<scenario, taskStatus, taskErrors, docs, credType, credSecrets, containers,
                 emitted, dups, handled, minted>>

\* A crawl of two pages without faults: the seed links to a second page.
CrashScenarios ==
  { Crawl("none", <<1>>, Page("ok", <<Raw(2, "none")>>), Leaf, Leaf) }

CrashInit == InitOn(CrashScenarios)

CrashNext ==
  \/ \E n \in emitted : Deliver(n)
  \/ RunNext
  \/ ClaimLoad \/ ClaimDelete \/ ClaimInsert
  \/ HarvestStart \/ HarvestPrepare \/ HarvestIsDone
  \/ \E i \in DocIds : FetchStart(i) \/ FetchSuccess(i)
  \/ Crash

CrashSpec == CrashInit /\ [][CrashNext]_vars

\* A notification about a collected document is being dropped.
DroppingCollected ==
  /\ cur.kind = "harvest" /\ cur.pc = "ensure" /\ cur' = Finished
  /\ cur.d \in Members(docs, cur.t) /\ docs[cur.d].status = REMOTE_COLLECTED_STATUS

\* The claim job takes its last step.
ClaimCompletes ==
  /\ cur.kind = "claim" /\ cur' = Finished /\ delivered' = delivered
  /\ taskStatus'[cur.t] = STATUS_BUSY

\* C32: a crash between two writes of a claim or of a document's processing,
\* followed by the redelivery of the notification, loses nothing: when the
\* notification of a collected document is dropped, every link of its page
\* is a document of the collection, and a claim that completes leaves no
\* document of the collection without status.
C32_CrashSafe ==
  [][/\ DroppingCollected
        => \A k \in 1..Len(getLinkedUrls(scenario, docs, cur.d)) :
             hasBeenCollected(docs, cur.t, getLinkedUrls(scenario, docs, cur.d)[k])
     /\ ClaimCompletes
        => \A i \in Members(docs', cur.t) : docs'[i].status # NoStatus]_vars

\* ------------------------------------------------------------ delivery order
\* What a document's unit of work reads and writes in the store.
Store == [docs |-> docs, taskStatus |-> taskStatus, containers |-> containers,
          credSecrets |-> credSecrets, minted |-> minted]

\* prepareNewDownloads from the n-th URL on, run to its end without another
\* actor in between; a throwing clone ends it in processRemoteDataObject's
\* catch.
RECURSIVE prepareNewDownloads(_, _, _, _, _)
prepareNewDownloads(s, ct, t, urls, n) ==
  IF n > Len(urls) THEN s
  ELSE IF hasBeenCollected(s.docs, t, urls[n]) THEN prepareNewDownloads(s, ct, t, urls, n + 1)
  ELSE LET created == [s EXCEPT !.docs = prepareNewDownload(s.docs, t, urls[n],
                                   authenticationFor(ct, s.credSecrets, t, s.minted + 1)),
                                !.minted = @ + 6]
       IN IF Truthy(hasAuth(ct, t)) /\ CloneOutcome(ct, t) = "throws"
          THEN [created EXCEPT !.credSecrets = deleteCredentials(@, ct, t),
                               !.taskStatus = updateHarvestStatus(@, t, TASK_STATUS_FAILED)]
          ELSE prepareNewDownloads(created, ct, t, urls, n + 1)

\* processDelta for one announced document, run to its end without another
\* actor in between: the relevance and readiness filters, then
\* processRemoteDataObject.
processRemoteDataObject(sc, ct, s, t, d) ==
  IF ~isRelevantRemoteDataObject(s.docs, d) \/ ~ensureFilesAreReadyForHarvesting(s.docs, d) THEN s
  ELSE IF ~getPhysicalFile(s.docs, d) \/ LinksThrow(sc, s.docs, d)
  THEN [s EXCEPT !.credSecrets = deleteCredentials(@, ct, t),
                 !.taskStatus = updateHarvestStatus(@, t, TASK_STATUS_FAILED)]
  ELSE LET urls == getLinkedUrls(sc, s.docs, d)
           marked == [s EXCEPT !.docs = updateDocStatus(@, d, REMOTE_COLLECTED_STATUS)]
       IN IF Len(urls) > 0 THEN prepareNewDownloads(marked, ct, t, urls, 1)
          ELSE IF isHarvestingCollectionDone(marked.docs, t, d)
          THEN [marked EXCEPT !.containers = appendCollectedFiles(@, marked.docs, t),
                              !.credSecrets = deleteCredentials(@, ct, t),
                              !.taskStatus = updateHarvestStatus(@, t, TASK_STATUS_SUCCESS)]
          ELSE marked

\* The pages of a collection with two downloaded seeds: each readable,
\* without file or unreadable, with no link, a link to the other seed or a
\* link to a third page.
OrderKinds == {"ok", "nofile", "unreadable"}

OrderScenarios ==
  { Crawl(c, <<1, 2>>, Page(k1, r1), Page(k2, r2), Leaf) :
      c \in {"none", BASIC_AUTH}, k1 \in OrderKinds, k2 \in OrderKinds,
      r1 \in {<<>>, <<Raw(2, "none")>>, <<Raw(3, "none")>>},
      r2 \in {<<>>, <<Raw(1, "none")>>, <<Raw(3, "none")>>} }

Downloaded(sc, i) ==
  IF i <= Len(sc.seeds)
  THEN [url |-> sc.seeds[i], status |-> REMOTE_SUCCESS_STATUS,
        phys |-> sc.pages[sc.seeds[i]].kind # "nofile", auth |-> NoAuth]
  ELSE NoDoc

\* A busy task whose two seeds have both been downloaded and announced; no
\* job has run yet.
OrderInit ==
  /\ scenario \in OrderScenarios
  /\ taskStatus = [t \in Tasks |-> STATUS_BUSY]
  /\ taskErrors = [t \in Tasks |-> 0]
  /\ docs = [i \in StoreIds |-> IF i \in DocIds THEN Downloaded(scenario, i) ELSE NoDoc]
  /\ credType = [t \in Tasks |-> scenario.cred]
  /\ credSecrets = [t \in Tasks |-> credType[t] # "none"]
  /\ containers = [t \in Tasks |-> <<>>]
  /\ queue = <<>>
  /\ cur = NoJob
  /\ iqueue = <<>>
  /\ mon = [k \in 1..MaxMon |-> FreeSlot]
  /\ emitted = {Notif("success", "-", i) : i \in 1..2}
  /\ delivered = {}
  /\ dups = 0
  /\ written = {}
  /\ handled = {}
  /\ minted = 0
  /\ alive = [q \in Queues |-> TRUE]
  /\ icur = 0

\* The notification of document d is delivered and its job runs to its end
\* before the next one is delivered.
ProcessUnit(d) ==
  /\ Notif("success", "-", d) \in emitted \ delivered
  /\ delivered' = delivered \cup {Notif("success", "-", d)}
  /\ LET r == processRemoteDataObject(scenario, credType, Store, TaskOf(d), d) IN
       /\ docs' = r.docs
       /\ taskStatus' = r.taskStatus
       /\ containers' = r.containers
       /\ credSecrets' = r.credSecrets
       /\ minted' = r.minted
       /\ written' = IF r.taskStatus # taskStatus THEN {<<TaskOf(d), r.taskStatus[TaskOf(d)]>>} ELSE {}
  /\ handled' = handled \cup {d}
  /\ UNCHANGED <<scenario, taskErrors, credType, queue, cur, iqueue, mon, emitted, dups, alive, icur>>

OrderNext == \E d \in DocIds : ProcessUnit(d)

OrderSpec == OrderInit /\ [][OrderNext]_vars

\* What the claim compares: the task's status, the URLs of the collection
\* and the status of the document of each URL.
Outcome(s, t) ==
  [status |-> s.taskStatus[t],
   documents |-> {<<s.docs[i].url, s.docs[i].status>> : i \in Members(s.docs, t)}]

InOrder(a, b) ==
  processRemoteDataObject(scenario, credType,
                          processRemoteDataObject(scenario, credType, Store, "T1", a), "T1", b)

\* C33: two document-completed notifications about documents of the same
\* collection, processed in either order, end with the same task status,
\* the same URLs in the collection and the same document statuses.
C33_OrderIndependent ==
  \A a, b \in Members(docs, "T1") :
    (a # b /\ docs[a].status = REMOTE_SUCCESS_STATUS /\ docs[b].status = REMOTE_SUCCESS_STATUS)
      => Outcome(InOrder(a, b), "T1") = Outcome(InOrder(b, a), "T1")

CreatesUnconfigured ==
  /\ AtLink /\ cur' # cur
  /\ ~hasBeenCollected(docs, cur.t, cur.urls[cur.n])
  /\ credType[cur.t] \notin {BASIC_AUTH, OAUTH2}

\* C35: in a collection without a configuration of a supported shape a new
\* document is created without configuration: hasAuth reports false, the
\* clone returns null and nothing but the document is written.
C35_NoAuthNoClone ==
  [][CreatesUnconfigured
     => /\ hasAuth(credType, cur.t) = JsBoolean(FALSE)
        /\ CloneOutcome(credType, cur.t) = "null"
        /\ \A i \in DocIds : docs'[i] # docs[i] => docs'[i] = NewDocument(cur.urls[cur.n], NoAuth)
        /\ UNCHANGED <<taskStatus, credSecrets, containers>>]_vars

\* ------------------------------------------------------------ one extraction
\* The job of a notification takes its first step.
Announced == cur.kind = "harvest" /\ cur.pc = "ensure" /\ cur' # cur

\* The step has read the links of the document's page and goes on with them.
Extracts == Announced /\ cur'.kind = "harvest" /\ cur'.pc \in {"prepare", "isdone"}

\* C36: a notification is acted on only for a document that is success (and
\* so not collected); its links are extracted at most once per download: not
\* again once a job has handled the document, until a claim has re-seeded
\* it and the fetcher has downloaded it anew.  A notification about a
\* document in any other status is dropped without a write.
C36_ExtractedOnce ==
  [][/\ Extracts
        => /\ docs[cur.d].status = REMOTE_SUCCESS_STATUS
           /\ cur.d \notin handled
           /\ docs'[cur.d].status = REMOTE_COLLECTED_STATUS
     /\ (Announced /\ docs[cur.d].status # REMOTE_SUCCESS_STATUS)
        => /\ cur' = Finished /\ written' = {}
           /\ UNCHANGED <<docs, taskStatus, taskErrors, containers, credSecrets, queue, minted>>]_vars

\* A repeated notification arrives for a document whose links have been
\* extracted.
C36_RepeatedAfterExtraction ==
  /\ cur.kind = "harvest" /\ cur.pc = "ensure"
  /\ cur.d \in handled /\ docs[cur.d].status = REMOTE_COLLECTED_STATUS
  /\ dups > 0

\* ------------------------------------------------------------ results container
\* C37: a task never has more than one results container, over every
\* interleaving of document jobs and failure checks, and a task that is
\* failed has none; stated for the runs in which no notification is
\* delivered twice.
C37_OneContainer ==
  dups = 0 =>
    \A t \in Tasks :
      /\ Len(containers[t]) <= 1
      /\ taskStatus[t] = TASK_STATUS_FAILED => containers[t] = <<>>

\* ------------------------------------------------------------ failure batches
\* handleDownloadFailure for a failure notification that names several
\* documents (remoteDatasMaxFailure), of the collections of two tasks.  Here
\* a job of the Internal queue is the batch (a sequence of documents, <<>>
\* for none) and a timer holds the batch and the position of the callback's
\* loop in it.  Only the failure monitor acts, so one iteration of the loop
\* is one step.
BatchTasks == {"T1", "T2"}

BatchFree == [st |-> "free", d |-> 0, batch |-> <<>>, pos |-> 0]

BatchTimer(b) == [st |-> "timer", d |-> 0, batch |-> b, pos |-> 1]

\* Two failed documents, in the same collection or one in each task's, and
\* a third document that is absent, in flight or collected, in either
\* collection.
BatchInit ==
  /\ \E S \in {{}, {2}, {2, 3}} :
       scenario = WithSecond(Crawl("none", <<1, 2>>, Page("fail", <<>>), Page("fail", <<>>), Leaf), S)
  /\ taskStatus \in [BatchTasks -> {STATUS_BUSY, TASK_STATUS_SUCCESS, TASK_STATUS_FAILED}]
  /\ taskErrors = [t \in BatchTasks |-> 0]
  /\ \E st \in {Absent, REMOTE_READY_STATUS, REMOTE_COLLECTED_STATUS} :
       docs = [i \in StoreIds |->
                 IF i \in 1..2 THEN [url |-> i, status |-> REMOTE_FAILURE_STATUS, phys |-> FALSE, auth |-> NoAuth]
                 ELSE IF i = 3 /\ st # Absent
                 THEN [url |-> 3, status |-> st, phys |-> st = REMOTE_COLLECTED_STATUS, auth |-> NoAuth]
                 ELSE NoDoc]
  /\ credType = [t \in BatchTasks |-> "none"]
  /\ credSecrets = [t \in BatchTasks |-> FALSE]
  /\ containers = [t \in BatchTasks |-> <<>>]
  /\ queue = <<>>
  /\ cur = NoJob
  /\ iqueue = <<>>
  /\ \E b \in {<<1, 2>>, <<2, 1>>} :
       mon = [k \in 1..MaxMon |-> IF k = 1 THEN BatchTimer(b) ELSE BatchFree]
  /\ emitted = {}
  /\ delivered = {}
  /\ dups = 0
  /\ written = {}
  /\ handled = {}
  /\ minted = 0
  /\ alive = [q \in Queues |-> TRUE]
  /\ icur = <<>>

\* The callback's loop moves to the next entry of the batch, or ends.
NextEntry(m) == IF m.pos < Len(m.batch) THEN [m EXCEPT !.pos = @ + 1] ELSE BatchFree

\* One iteration of the callback's `for (let collection of collections)`:
\*   - collection done and task terminal: `return`, the callback ends;
\*   - collection done: the task is finalized, success with the results
\*     container when a document is collected, failed otherwise;
\*   - otherwise: INTERNAL_QUEUE.addJob of handleDownloadFailure for the
\*     whole batch.
BatchIterate(k) ==
  /\ mon[k].st = "timer"
  /\ LET d == mon[k].batch[mon[k].pos]
         t == TaskOf(d)
     IN IF isHarvestingCollectionDone(docs, t, d)
        THEN IF TerminalTask(taskStatus[t])
             THEN /\ mon' = [mon EXCEPT ![k] = BatchFree]
                  /\ written' = {}
                  /\ UNCHANGED <<taskStatus, containers, iqueue>>
             ELSE IF hasRemoteObjectCollected(docs, t) > 0
             THEN /\ containers' = appendCollectedFiles(containers, docs, t)
                  /\ taskStatus' = updateHarvestStatus(taskStatus, t, TASK_STATUS_SUCCESS)
                  /\ written' = {<<t, TASK_STATUS_SUCCESS>>}
                  /\ mon' = [mon EXCEPT ![k] = NextEntry(@)]
                  /\ UNCHANGED iqueue
             ELSE /\ taskStatus' = updateHarvestStatus(taskStatus, t, TASK_STATUS_FAILED)
                  /\ written' = {<<t, TASK_STATUS_FAILED>>}
                  /\ mon' = [mon EXCEPT ![k] = NextEntry(@)]
                  /\ UNCHANGED <<containers, iqueue>>
        ELSE /\ Len(iqueue) < MaxQueue
             /\ iqueue' = addJob(iqueue, mon[k].batch)
             /\ mon' = [mon EXCEPT ![k] = NextEntry(@)]
             /\ written' = {}
             /\ UNCHANGED <<taskStatus, containers>>
  /\ UNCHANGED <<scenario, taskErrors, docs, credType, credSecrets,
                 queue, cur, emitted, delivered, dups, handled, minted, alive, icur>>

\* The Internal queue's run() takes the oldest re-enqueued batch.
BatchRun ==
  /\ canRun(iqueue, icur # <<>>, alive["Internal"])
  /\ icur' = Head(iqueue)
  /\ iqueue' = Tail(iqueue)
  /\ written' = {}
  /\ UNCHANGED <<scenario, taskStatus, taskErrors, docs, credType, credSecrets, containers,
                 queue, cur, mon, emitted, delivered, dups, handled, minted, alive>>

\* handleDownloadFailure as a job: resolve the collections, set the timer.
BatchArm ==
  /\ icur # <<>>
  /\ \E k \in 1..MaxMon :
       /\ mon[k].st = "free"
       /\ \A j \in 1..MaxMon : mon[j].st = "free" => k <= j
       /\ mon' = [mon EXCEPT ![k] = BatchTimer(icur)]
  /\ icur' = <<>>
  /\ written' = {}
  /\ UNCHANGED <<scenario, taskStatus, taskErrors, docs, credType, credSecrets, containers,
                 queue, cur, iqueue, emitted, delivered, dups, handled, minted, alive>>

BatchNext == (\E k \in 1..MaxMon : BatchIterate(k)) \/ BatchRun \/ BatchArm

BatchSpec == BatchInit /\ [][BatchNext]_vars

\* The callback in slot k ends on a collection that is done and whose task
\* is terminal.
ReturnsOnTerminal(k) ==
  /\ mon[k].st = "timer" /\ mon'[k] # mon[k]
  /\ isHarvestingCollectionDone(docs, TaskOf(mon[k].batch[mon[k].pos]), mon[k].batch[mon[k].pos])
  /\ TerminalTask(taskStatus[TaskOf(mon[k].batch[mon[k].pos])])

\* C38: the collections of a batch are evaluated independently: a
\* collection found done with a terminal task does not keep the check from
\* going on to the remaining documents of the batch.
C38_BatchIndependent ==
  [][\A k \in 1..MaxMon :
       (ReturnsOnTerminal(k) /\ mon[k].pos < Len(mon[k].batch))
         => mon'[k] = [mon[k] EXCEPT !.pos = @ + 1]]_vars

\* The re-checks of the batch that are waiting: jobs of the Internal queue
\* and timers whose callback has not started.
PendingChecks ==
  Len(iqueue) + (IF icur # <<>> THEN 1 ELSE 0)
    + Cardinality({k \in 1..MaxMon : mon[k].st = "timer" /\ mon[k].pos = 1})

\* C39: one failure notification has at most one re-check of its batch
\* pending at any time.
C39_OnePending == PendingChecks <= 1

\* ------------------------------------------------------------ polling
\* Two seeds whose first download fails for good: the second is downloaded
\* without a physical file (its fault fails the task and leaves the
\* document success), or fails as well (the failure checks fail the task).
PollScenarios ==
  { Crawl("none", <<1, 2>>, Page("fail", <<>>), Page("nofile", <<>>), Leaf),
    Crawl("none", <<1, 2>>, Page("fail", <<>>), Page("fail", <<>>), Leaf) }

PollInit == InitOn(PollScenarios)

\* A step of the failure monitor: the Internal queue, the timers and their
\* callbacks.
MonitorNext ==
  \/ InternalRun \/ InternalArm
  \/ \E k \in 1..MaxMon :
       \/ MonitorCheck(k) \/ MonitorStatus(k) \/ MonitorCollected(k) \/ MonitorFail(k)

PollNext ==
  \/ \E n \in emitted : Deliver(n)
  \/ RunNext
  \/ ClaimLoad \/ ClaimDelete \/ ClaimInsert
  \/ HarvestStart
  \/ FailureRoute \/ FailureArm
  \/ MonitorNext
  \/ \E i \in DocIds :
       \/ FetchStart(i) \/ FetchSuccess(i) \/ FetchFailure(i)

\* The event loop runs every job, every timer fires and every callback
\* that can go on does so; the fetcher finishes its downloads.
PollSpec ==
  /\ PollInit /\ [][PollNext]_vars
  /\ WF_vars(RunNext) /\ WF_vars(ClaimLoad \/ ClaimDelete \/ ClaimInsert)
  /\ WF_vars(HarvestStart) /\ WF_vars(FailureRoute \/ FailureArm)
  /\ WF_vars(MonitorNext)
  /\ WF_vars(\E i \in DocIds : FetchStart(i) \/ FetchSuccess(i) \/ FetchFailure(i))

\* No failed-document check is waiting, set or running.
NoCheckPending ==
  /\ iqueue = <<>> /\ icur = 0
  /\ \A k \in 1..MaxMon : mon[k].st = "free"

\* C40: polling ends: from some point on either the task is not terminal or
\* no check of its collection is pending any more, whatever status the
\* documents of the collection are left in.
C40_PollingStops ==
  <>[](\A t \in Tasks : TerminalTask(taskStatus[t]) => NoCheckPending)

====
